---- MODULE Spec2Model ----
(***************************************************************************)
(* The transaction gateway of server_api.py: the in-memory rate limiter    *)
(* (rate_limit over request_counts), the HTTP endpoints that call it, and  *)
(* the transfer pipeline with its confirmation poller.                     *)
(***************************************************************************)
EXTENDS Integers, Sequences, FiniteSets, TLC

(***************************************************************************)
(* Program constants.                                                      *)
(***************************************************************************)
REQUEST_LIMIT == 100

RATE_WINDOW == 3600

(***************************************************************************)
(* Bounds of the model.                                                    *)
(***************************************************************************)
\* a busy caller sends up to REQUEST_LIMIT + MaxOver requests per window
MaxOver == 2

\* a quiet caller sends up to MaxLight requests per window
MaxLight == 2

\* the clock advances at most MaxTicks times in one behaviour
MaxTicks == 2

\* wait_for_confirmation(client, txid, timeout=10)
timeout == 10

\* concurrent requests start at most MaxConcCalls calls of rate_limit
MaxConcCalls == 3

\* caller keys: the values of request.remote_addr
Keys == {"ip1", "ip2"}

\* the amounts by which the clock advances between two requests
Steps == {1, RATE_WINDOW}

VARIABLES
    now,            \* the value int(time.time()) returns
    ticks,          \* how often the clock has advanced
    load,           \* workload: the requests each caller sends per window
    request_counts, \* the dict request_counts: ip -> {count, timestamp}
    win,            \* history: per caller, the calls since the window_start
                    \* of its record
    last,           \* the most recent rate_limit call and what it returned
    probe,          \* history: the admitted calls of one caller inside one
                    \* interval of RATE_WINDOW seconds
    th,             \* concurrent requests: each thread's position in
                    \* rate_limit and its local variables
    gen,            \* per key, how many record objects the dict has held
    completed,      \* history: per key, the rate_limit calls that returned
    started,        \* history: the rate_limit calls the threads have begun
    pc,             \* where the request being served stands in its handler
    req,            \* the request being served, or the last one served
    xf,             \* transfer_funds and wait_for_confirmation: the local
                    \* variables, the node calls made, the poller's outcome
    resp,           \* the response to req, once it is given
    log             \* the values of requests, or derived from them, that
                    \* the process has written to its output

rlvars == <<now, ticks, load, request_counts, win, last, probe>>

cvars == <<th, gen, completed, started>>

hvars == <<pc, req, xf, resp, log>>

vars == <<rlvars, cvars, hvars>>

(***************************************************************************)
(* Python dict operations on request_counts.                               *)
(***************************************************************************)
DictDel(d, k) == [x \in DOMAIN d \ {k} |-> d[x]]

DictPut(d, k, v) == [x \in DOMAIN d \cup {k} |-> IF x = k THEN v ELSE d[x]]

\* mutant: the window is taken twice as long
ExpiredTwoWindows(rec, current_time) ==
    current_time - rec.timestamp > 2 * RATE_WINDOW

\* current_time - request_counts[ip]["timestamp"] > RATE_WINDOW
Expired(rec, current_time) == current_time - rec.timestamp > RATE_WINDOW

\* mutant: every record is deleted
SweepDeletesAll(rc, current_time) == [ip \in {} |-> rc[ip]]

\* mutant: no record is deleted
SweepKeepsAll(rc, current_time) == rc

\* the loop "Clean up old entries": every expired record is deleted
Sweep(rc, current_time) ==
    [ip \in {x \in DOMAIN rc : ~Expired(rc[x], current_time)} |-> rc[ip]]

\* mutant: a count above the limit is not incremented any more
UpdateStopsAtLimit(rc, client_ip, current_time) ==
    IF client_ip \in DOMAIN rc
    THEN IF Expired(rc[client_ip], current_time)
         THEN DictPut(rc, client_ip, [count |-> 1, timestamp |-> current_time])
         ELSE IF rc[client_ip].count > REQUEST_LIMIT THEN rc
         ELSE DictPut(rc, client_ip,
                      [count |-> rc[client_ip].count + 1,
                       timestamp |-> rc[client_ip].timestamp])
    ELSE DictPut(rc, client_ip, [count |-> 1, timestamp |-> current_time])

\* the statement "Check/update the count for this IP"
Update(rc, client_ip, current_time) ==
    IF client_ip \in DOMAIN rc
    THEN IF Expired(rc[client_ip], current_time)
         THEN DictPut(rc, client_ip, [count |-> 1, timestamp |-> current_time])
         ELSE DictPut(rc, client_ip,
                      [count |-> rc[client_ip].count + 1,
                       timestamp |-> rc[client_ip].timestamp])
    ELSE DictPut(rc, client_ip, [count |-> 1, timestamp |-> current_time])

\* request_counts after rate_limit(client_ip) has run at current_time
RateLimitTable(rc, client_ip, current_time) ==
    Update(Sweep(rc, current_time), client_ip, current_time)

\* mutant: the comparison is off by one
RateLimitResultOffByOne(rc, client_ip) ==
    rc[client_ip].count > REQUEST_LIMIT + 1

\* mutant: only the call that crosses the limit is rejected
RateLimitResultOnlyFirst(rc, client_ip) ==
    rc[client_ip].count = REQUEST_LIMIT + 1

\* the value rate_limit returns: True when the limit is exceeded
RateLimitResult(rc, client_ip) == rc[client_ip].count > REQUEST_LIMIT

(***************************************************************************)
(* History variables of the rate limiter.                                  *)
(***************************************************************************)
NoWin == [start |-> -1, calls |-> 0, admitted |-> 0]

\* the calls of client_ip since the window_start its record now has
WinAfter(w, rc, client_ip, limited) ==
    LET ws == rc[client_ip].timestamp
        one == IF limited THEN 0 ELSE 1
    IN  [x \in Keys |->
            IF x \notin DOMAIN rc THEN NoWin
            ELSE IF x # client_ip THEN w[x]
            ELSE IF w[x].start = ws
                 THEN [start |-> ws, calls |-> w[x].calls + 1,
                       admitted |-> w[x].admitted + one]
                 ELSE [start |-> ws, calls |-> 1, admitted |-> one]]

NoProbe == [key |-> "none", start |-> 0, count |-> 0, anchored |-> FALSE]

\* a probe that has not yet chosen its caller and its interval
ArmedProbe == [key |-> "any", start |-> 0, count |-> 0, anchored |-> FALSE]

\* the admitted calls of probe.key at times in [start, start + RATE_WINDOW];
\* anchored: the record of probe.key has had window_start = start.
\* An armed probe may open at any call: its interval starts at that call.
ProbeAfter(p, open, rc, client_ip, current_time, limited) ==
    LET q == IF p.key = "any" /\ open
             THEN [key |-> client_ip, start |-> current_time, count |-> 0,
                   anchored |-> FALSE]
             ELSE p
        inside == /\ q.start <= current_time
                  /\ current_time <= q.start + RATE_WINDOW
    IN  IF q.key # client_ip THEN q
        ELSE [q EXCEPT
                !.count = IF inside /\ ~limited THEN @ + 1 ELSE @,
                !.anchored = @ \/ rc[client_ip].timestamp = q.start]

\* a probe whose interval lies in the past keeps nothing
ClosedProbe == [key |-> "closed", start |-> 0, count |-> 0, anchored |-> FALSE]

ProbeAtTime(p, t) ==
    IF p.key \in Keys /\ t > p.start + RATE_WINDOW THEN ClosedProbe ELSE p

\* no record
NoRec == [count |-> 0, timestamp |-> -1]

NoCall ==
    [key |-> "none", time |-> 0, limited |-> FALSE, nth |-> 0, prev |-> NoRec,
     swept |-> {}]

\* workloads: one busy caller, the others quiet
Workloads ==
    {[k \in Keys |-> IF k = h THEN REQUEST_LIMIT + MaxOver ELSE MaxLight] :
        h \in Keys}

(***************************************************************************)
(* The clock and the rate limiter.                                         *)
(***************************************************************************)
Tick(d) ==
    /\ ticks < MaxTicks
    /\ now' = now + d
    /\ ticks' = ticks + 1
    /\ probe' = ProbeAtTime(probe, now')
    /\ UNCHANGED <<load, request_counts, win, last, cvars, hvars>>

\* one call rate_limit(client_ip), run to completion
rate_limit(client_ip) ==
    LET current_time == now
        rc == RateLimitTable(request_counts, client_ip, current_time)
        limited == RateLimitResult(rc, client_ip)
    IN  /\ rc[client_ip].count <= load[client_ip]
        /\ request_counts' = rc
        /\ win' = WinAfter(win, rc, client_ip, limited)
        /\ \E open \in BOOLEAN :
              probe' = ProbeAfter(probe, open, rc, client_ip, current_time,
                                  limited)
        /\ last' = [key |-> client_ip, time |-> current_time,
                    limited |-> limited, nth |-> win'[client_ip].calls,
                    prev |-> IF client_ip \in DOMAIN request_counts
                             THEN request_counts[client_ip] ELSE NoRec,
                    swept |-> DOMAIN request_counts
                              \ DOMAIN Sweep(request_counts, current_time)]
        /\ UNCHANGED <<now, ticks, load>>

\* the threads Flask runs requests on
Threads == {"t1", "t2"}

IdleThread ==
    [pc |-> "idle", client_ip |-> "none", current_time |-> 0, keys |-> {},
     ip |-> "none", count |-> 0, ref |-> 0, result |-> "none"]

InitConcVars ==
    /\ th = [t \in Threads |-> IdleThread]
    /\ gen = [k \in Keys |-> 0]
    /\ completed = [k \in Keys |-> 0]
    /\ started = 0

NoReq == [endpoint |-> "none", client_ip |-> "none", seen |-> 0]

NoXf ==
    [local_tx_id |-> "none", tx_id |-> "none", start_round |-> 0,
     current_round |-> 0, calls |-> << >>, failed |-> "none",
     outcome |-> "none", steps |-> << >>, confirmed |-> FALSE]

\* the node call `name` is made; bad: it raises or its answer is unusable
NodeCall(x, name, bad) ==
    [x EXCEPT !.calls = Append(@, name),
              !.steps = Append(@, name),
              !.failed = IF bad /\ @ = "none" THEN name ELSE @]

NoResp == [code |-> 0, status |-> "none", error |-> "none", tx_id |-> "none"]

InitHttpVars ==
    /\ pc = "idle"
    /\ req = NoReq
    /\ xf = NoXf
    /\ resp = NoResp
    /\ log = {}

InitRL ==
    /\ InitConcVars
    /\ InitHttpVars
    /\ now = 0
    /\ ticks = 0
    /\ load \in Workloads
    /\ request_counts = [ip \in {} |-> NoWin]
    /\ win = [k \in Keys |-> NoWin]
    /\ last = NoCall
    /\ probe = NoProbe

\* workloads: one busy caller, the others silent
SoloWorkloads ==
    {[k \in Keys |-> IF k = h THEN REQUEST_LIMIT + MaxOver ELSE 0] :
        h \in Keys}

\* one busy caller, whose admitted calls are counted inside one interval of
\* RATE_WINDOW seconds; the interval starts at any one of its calls
InitRoll ==
    /\ InitConcVars
    /\ InitHttpVars
    /\ now = 0
    /\ ticks = 0
    /\ load \in SoloWorkloads
    /\ request_counts = [ip \in {} |-> NoWin]
    /\ win = [k \in Keys |-> NoWin]
    /\ last = NoCall
    /\ probe = ArmedProbe

\* a sequential caller of rate_limit
Call(client_ip) == rate_limit(client_ip) /\ UNCHANGED <<cvars, hvars>>

NextRL ==
    \/ \E d \in Steps : Tick(d)
    \/ \E client_ip \in Keys : Call(client_ip)

SpecRL == InitRL /\ [][NextRL]_vars

SpecRoll == InitRoll /\ [][NextRL]_vars

(***************************************************************************)
(* The rate limiter's claims.                                              *)
(***************************************************************************)
\* the step is a rate_limit call for k
CallStep(k) == last' # last /\ last'.key = k

\* C1 as stated: in every interval of RATE_WINDOW seconds, wherever it
\* starts, at most REQUEST_LIMIT calls of one caller key are admitted.
RollingLimit == probe.count <= REQUEST_LIMIT

\* C1 amended: in every interval of RATE_WINDOW seconds that starts at the
\* window_start of a record of the caller key, at most REQUEST_LIMIT calls
\* of that key are admitted.
WindowLimit == probe.anchored => probe.count <= REQUEST_LIMIT

\* C1 witness: a window that did not start at time 0 is full, and a further
\* call inside it has been rejected.
WindowLimitReached ==
    /\ probe.anchored
    /\ probe.start > 0
    /\ probe.count = REQUEST_LIMIT
    /\ last.key = probe.key
    /\ last.limited
    /\ last.time <= probe.start + RATE_WINDOW

\* C2: a call for a key whose count already exceeds REQUEST_LIMIT, made
\* before the record's window has elapsed, is rejected; and the call that
\* is number REQUEST_LIMIT + 1 since the window_start is rejected.
OverLimitRejected ==
    /\ [](last.nth = REQUEST_LIMIT + 1 => last.limited)
    /\ [][\A k \in Keys :
            (/\ k \in DOMAIN request_counts
             /\ request_counts[k].count > REQUEST_LIMIT
             /\ now - request_counts[k].timestamp <= RATE_WINDOW
             /\ CallStep(k))
            => last'.limited]_vars

\* C2 witness: the call after call REQUEST_LIMIT + 1 was made at the very
\* end of the window and was rejected.
OverLimitRejectedAgain ==
    /\ last.prev.count > REQUEST_LIMIT
    /\ last.time - last.prev.timestamp = RATE_WINDOW
    /\ last.limited

\* C3: a call made more than RATE_WINDOW seconds after the window_start of
\* the caller's record is admitted and leaves count = 1 and
\* window_start = the time of the call.
ElapsedWindowRestarts ==
    [][\A k \in Keys :
          (/\ k \in DOMAIN request_counts
           /\ now - request_counts[k].timestamp > RATE_WINDOW
           /\ CallStep(k))
          => /\ ~last'.limited
             /\ request_counts'[k] = [count |-> 1, timestamp |-> now]]_vars

\* C3 witness: the record had a count above the limit, its window elapsed,
\* and the next call was admitted.
RestartedAfterOverLimit ==
    /\ last.prev.count > REQUEST_LIMIT
    /\ last.time - last.prev.timestamp > RATE_WINDOW
    /\ ~last.limited
    /\ last.nth = 1

(***************************************************************************)
(* rate_limit run by concurrent requests.  Each step is one read or one    *)
(* write of request_counts; between two steps of a thread the other        *)
(* threads may run.  The order in which the sweep visits the keys is not   *)
(* tracked: every order is allowed.                                        *)
(***************************************************************************)
\* a KeyError leaves rate_limit: the request ends without a return value
Raise(t) ==
    [th EXCEPT ![t] = [IdleThread EXCEPT !.result = "KeyError"]]

AfterKey(keys) == IF keys = {} THEN "check" ELSE "sweep"

\* line 431: current_time = int(time.time())
Enter(t, client_ip) ==
    /\ th[t].pc = "idle"
    /\ started < MaxConcCalls
    /\ started' = started + 1
    /\ th' = [th EXCEPT ![t] = [IdleThread EXCEPT !.pc = "keys",
                                                  !.client_ip = client_ip,
                                                  !.current_time = now]]
    /\ UNCHANGED <<rlvars, gen, completed, hvars>>

\* line 434: list(request_counts.keys())
Snapshot(t) ==
    /\ th[t].pc = "keys"
    /\ th' = [th EXCEPT ![t].keys = DOMAIN request_counts,
                        ![t].pc = AfterKey(DOMAIN request_counts)]
    /\ UNCHANGED <<rlvars, gen, completed, started, hvars>>

\* line 435: the read request_counts[ip]["timestamp"] and the comparison
SweepRead(t) ==
    /\ th[t].pc = "sweep"
    /\ \E ip \in th[t].keys :
          IF ip \notin DOMAIN request_counts
          THEN th' = Raise(t)
          ELSE IF Expired(request_counts[ip], th[t].current_time)
          THEN th' = [th EXCEPT ![t].ip = ip, ![t].pc = "del"]
          ELSE th' = [th EXCEPT ![t].keys = @ \ {ip},
                                ![t].pc = AfterKey(th[t].keys \ {ip})]
    /\ UNCHANGED <<rlvars, gen, completed, started, hvars>>

\* line 436: del request_counts[ip]
SweepDel(t) ==
    /\ th[t].pc = "del"
    /\ IF th[t].ip \notin DOMAIN request_counts
       THEN /\ th' = Raise(t)
            /\ UNCHANGED <<request_counts, gen>>
       ELSE /\ request_counts' = DictDel(request_counts, th[t].ip)
            /\ gen' = [gen EXCEPT ![th[t].ip] = @ + 1]
            /\ th' = [th EXCEPT ![t].keys = @ \ {th[t].ip},
                                ![t].ip = "none",
                                ![t].pc = AfterKey(th[t].keys \ {th[t].ip})]
    /\ UNCHANGED <<now, ticks, load, win, last, probe, completed, started, hvars>>

\* line 439: client_ip in request_counts
Check(t) ==
    /\ th[t].pc = "check"
    /\ th' = [th EXCEPT ![t].pc =
                 IF th[t].client_ip \in DOMAIN request_counts
                 THEN "read_ts" ELSE "create"]
    /\ UNCHANGED <<rlvars, gen, completed, started, hvars>>

\* line 440: the read request_counts[client_ip]["timestamp"]
ReadTs(t) ==
    /\ th[t].pc = "read_ts"
    /\ IF th[t].client_ip \notin DOMAIN request_counts
       THEN th' = Raise(t)
       ELSE th' = [th EXCEPT ![t].pc =
                      IF Expired(request_counts[th[t].client_ip],
                                 th[t].current_time)
                      THEN "reset" ELSE "load"]
    /\ UNCHANGED <<rlvars, gen, completed, started, hvars>>

\* lines 442 and 448: request_counts[client_ip] = {"count": 1, ...}
Assign(t) ==
    /\ th[t].pc \in {"reset", "create"}
    /\ request_counts' = DictPut(request_counts, th[t].client_ip,
                                 [count |-> 1,
                                  timestamp |-> th[t].current_time])
    /\ gen' = [gen EXCEPT ![th[t].client_ip] = @ + 1]
    /\ th' = [th EXCEPT ![t].pc = "ret"]
    /\ UNCHANGED <<now, ticks, load, win, last, probe, completed, started, hvars>>

\* line 445, the read half of  request_counts[client_ip]["count"] += 1 :
\* the record object is fetched and its count is read
Load(t) ==
    /\ th[t].pc = "load"
    /\ IF th[t].client_ip \notin DOMAIN request_counts
       THEN th' = Raise(t)
       ELSE th' = [th EXCEPT ![t].count =
                                 request_counts[th[t].client_ip].count,
                             ![t].ref = gen[th[t].client_ip],
                             ![t].pc = "store"]
    /\ UNCHANGED <<rlvars, gen, completed, started, hvars>>

\* line 445, the write half: count + 1 is stored into the record object
\* that was fetched, which the dict may no longer hold
Store(t) ==
    /\ th[t].pc = "store"
    /\ LET k == th[t].client_ip
       IN  IF k \in DOMAIN request_counts /\ gen[k] = th[t].ref
           THEN request_counts' =
                    DictPut(request_counts, k,
                            [count |-> th[t].count + 1,
                             timestamp |-> request_counts[k].timestamp])
           ELSE UNCHANGED request_counts
    /\ th' = [th EXCEPT ![t].pc = "ret"]
    /\ UNCHANGED <<now, ticks, load, win, last, probe, gen, completed, started, hvars>>

\* line 451: return request_counts[client_ip]["count"] > REQUEST_LIMIT
Return(t) ==
    /\ th[t].pc = "ret"
    /\ IF th[t].client_ip \notin DOMAIN request_counts
       THEN /\ th' = Raise(t)
            /\ UNCHANGED completed
       ELSE /\ th' = [th EXCEPT ![t] =
                        [IdleThread EXCEPT !.result =
                            IF RateLimitResult(request_counts,
                                               th[t].client_ip)
                            THEN "limited" ELSE "admitted"]]
            /\ completed' = [completed EXCEPT ![th[t].client_ip] = @ + 1]
    /\ UNCHANGED <<rlvars, gen, started, hvars>>

InitConc ==
    /\ InitConcVars
    /\ InitHttpVars
    /\ now = 0
    /\ ticks = 0
    /\ load = [k \in Keys |-> 0]
    /\ request_counts = [ip \in {} |-> NoWin]
    /\ win = [k \in Keys |-> NoWin]
    /\ last = NoCall
    /\ probe = NoProbe

NextConc ==
    \/ \E d \in Steps : Tick(d)
    \/ \E t \in Threads, client_ip \in Keys : Enter(t, client_ip)
    \/ \E t \in Threads : Snapshot(t)
    \/ \E t \in Threads : SweepRead(t)
    \/ \E t \in Threads : SweepDel(t)
    \/ \E t \in Threads : Check(t)
    \/ \E t \in Threads : ReadTs(t)
    \/ \E t \in Threads : Assign(t)
    \/ \E t \in Threads : Load(t)
    \/ \E t \in Threads : Store(t)
    \/ \E t \in Threads : Return(t)

SpecConc == InitConc /\ [][NextConc]_vars

\* C4: under concurrent calls no increment is lost: while every call so far
\* was made at time 0, inside one window, the stored count of a key is at
\* least the number of calls for that key that have returned.
NoLostIncrement ==
    \A k \in DOMAIN request_counts :
        now = 0 => request_counts[k].count >= completed[k]

(***************************************************************************)
(* The HTTP endpoints, served one request at a time.                       *)
(***************************************************************************)
\* the endpoints that call rate_limit
LimitedEndpoints == {"/api/account/new", "/api/account/balance", "/api/transfer"}

\* mnemonic.to_private_key and account.address_from_private_key: the
\* phrase "mA" derives address "A", "mB" derives "B"; any other phrase is
\* malformed and to_private_key raises
Derive(mnemonic_phrase) ==
    CASE mnemonic_phrase = "mA" -> "A"
      [] mnemonic_phrase = "mB" -> "B"
      [] OTHER -> "raise"

\* Python truth value of a JSON value: None, "", 0 and [] are false
Truthy(v) == v \notin {"null", "", "0", "[]"}

\* the values validate_mnemonic prints: line 467 writes the derived and
\* the claimed address when they differ; the text of the exception that
\* line 472 writes is taken to hold no value of the request
ValidateLog(mnemonic_phrase, address) ==
    IF Derive(mnemonic_phrase) # "raise" /\ Truthy(address)
       /\ Derive(mnemonic_phrase) # address
    THEN {[role |-> "derived_address", value |-> Derive(mnemonic_phrase)],
          [role |-> "address", value |-> address]}
    ELSE {}

\* mutant: the derived address is not compared with the claimed one
validate_mnemonicNoCompare(mnemonic_phrase, address) ==
    Derive(mnemonic_phrase) # "raise"

\* validate_mnemonic(mnemonic_phrase, address)
validate_mnemonic(mnemonic_phrase, address) ==
    IF Derive(mnemonic_phrase) = "raise" THEN FALSE
    ELSE IF Truthy(address) THEN Derive(mnemonic_phrase) = address
    ELSE TRUE

\* int(amount): the JSON values are written as text; a quoted value is a
\* JSON string.  "ok", or the exception int() raises
IntRaises(amount) ==
    CASE amount \in {"0", "-5", "7"} -> "ok"
      [] amount = "'abc'" -> "ValueError"
      [] OTHER -> "TypeError"

IntOf(amount) ==
    CASE amount = "0" -> 0
      [] amount = "-5" -> -5
      [] OTHER -> 7

Response(code, status, error, tx_id) ==
    [code |-> code, status |-> status, error |-> error, tx_id |-> tx_id]

\* the request bodies callers send
BalanceBodies ==
    {[json |-> "invalid"]} \cup
    [json : {"object"}, address : {"A", "null"},
     mnemonic : {"mA", "mB", "bad", "null"}]

TransferBodies ==
    {[json |-> "invalid"]} \cup
    [json : {"object"}, from : {"A", "null"},
     mnemonic : {"mA", "mB", "bad", "null"}, to : {"B", "junk"},
     amount : {"null", "0", "-5", "7", "'abc'", "[7]"}]

\* history: the requests of client_ip the limiter has counted since the
\* window_start of its record, while that window has not elapsed
Seen(client_ip) ==
    IF win[client_ip].calls > 0 /\ now - win[client_ip].start <= RATE_WINDOW
    THEN win[client_ip].calls
    ELSE 0

\* the steps of create_account up to its response
CreateSteps(limited) ==
    IF limited THEN <<"rate_limit">>
    ELSE <<"rate_limit", "generate_account">>

\* the steps of get_balance before its node call
BalanceSteps(limited, body) ==
    IF limited THEN <<"rate_limit">>
    ELSE IF \/ body.json # "object"
            \/ ~Truthy(body.address)
            \/ ~Truthy(body.mnemonic)
    THEN <<"rate_limit", "get_json">>
    ELSE <<"rate_limit", "get_json", "validate_mnemonic">>

\* mutant: transfer_funds reads the body before it asks the rate limiter
TransferStepsBodyFirst(limited, body) ==
    IF limited THEN <<"get_json", "rate_limit">>
    ELSE <<"get_json", "rate_limit", "validate_mnemonic", "to_private_key">>

\* the steps of transfer_funds before its first node call: lines 543 to 572
TransferSteps(limited, body) ==
    IF limited THEN <<"rate_limit">>
    ELSE IF \/ body.json # "object"
            \/ ~(/\ Truthy(body.from) /\ Truthy(body.mnemonic)
                 /\ Truthy(body.to) /\ Truthy(body.amount))
            \/ IntRaises(body.amount) # "ok"
            \/ IntOf(body.amount) <= 0
    THEN <<"rate_limit", "get_json">>
    ELSE IF ~validate_mnemonic(body.mnemonic, body.from)
    THEN <<"rate_limit", "get_json", "validate_mnemonic">>
    ELSE <<"rate_limit", "get_json", "validate_mnemonic", "to_private_key">>

\* POST /api/account/new
create_account(client_ip) ==
    /\ pc = "idle"
    /\ rate_limit(client_ip)
    /\ req' = [endpoint |-> "/api/account/new", client_ip |-> client_ip,
               seen |-> Seen(client_ip), body |-> [json |-> "none"]]
    /\ xf' = [NoXf EXCEPT !.steps = CreateSteps(last'.limited)]
    /\ \E generated \in BOOLEAN :
          resp' = IF last'.limited
                  THEN Response(429, "none", "Rate limit exceeded", "none")
                  ELSE IF generated
                  THEN Response(200, "none", "none", "none")
                  ELSE Response(500, "none", "Failed to create account", "none")
    /\ UNCHANGED <<pc, cvars, log>>

\* POST /api/account/balance
get_balance(client_ip, body) ==
    /\ pc = "idle"
    /\ rate_limit(client_ip)
    /\ req' = [endpoint |-> "/api/account/balance", client_ip |-> client_ip,
               seen |-> Seen(client_ip), body |-> body]
    /\ \E account_info \in {"ok", "fail"} :
          IF last'.limited
          THEN /\ resp' = Response(429, "none", "Rate limit exceeded", "none")
               /\ xf' = [NoXf EXCEPT !.steps = BalanceSteps(last'.limited, body)]
          ELSE IF body.json # "object"
          THEN /\ resp' = Response(500, "none", "Failed to retrieve balance",
                                   "none")
               /\ xf' = [NoXf EXCEPT !.steps = BalanceSteps(last'.limited, body)]
          ELSE IF ~Truthy(body.address) \/ ~Truthy(body.mnemonic)
          THEN /\ resp' = Response(400, "none", "Missing address or mnemonic",
                                   "none")
               /\ xf' = [NoXf EXCEPT !.steps = BalanceSteps(last'.limited, body)]
          ELSE IF ~validate_mnemonic(body.mnemonic, body.address)
          THEN /\ resp' = Response(403, "none", "Invalid mnemonic for address",
                                   "none")
               /\ xf' = [NoXf EXCEPT !.steps = BalanceSteps(last'.limited, body)]
          ELSE /\ xf' = NodeCall([NoXf EXCEPT !.steps =
                                        BalanceSteps(last'.limited, body)],
                                  "account_info", account_info = "fail")
               /\ resp' = IF account_info = "ok"
                          THEN Response(200, "none", "none", "none")
                          ELSE Response(500, "none",
                                        "Failed to retrieve balance", "none")
    /\ log' = IF /\ ~last'.limited
                 /\ body.json = "object"
                 /\ Truthy(body.address)
                 /\ Truthy(body.mnemonic)
              THEN log \cup ValidateLog(body.mnemonic, body.address)
              ELSE log
    /\ UNCHANGED <<pc, cvars>>

\* GET /health
health_check(client_ip) ==
    /\ pc = "idle"
    /\ req' = [endpoint |-> "/health", client_ip |-> client_ip,
               seen |-> Seen(client_ip), body |-> [json |-> "none"]]
    /\ \E status \in {"ok", "fail"} :
          /\ xf' = NodeCall(NoXf, "status", status = "fail")
          /\ resp' = IF status = "ok"
                     THEN Response(200, "healthy", "none", "none")
                     ELSE Response(503, "unhealthy", "node error", "none")
    /\ UNCHANGED <<pc, rlvars, cvars, log>>

(***************************************************************************)
(* POST /api/transfer.  Every call to the node is a step of its own: the   *)
(* node answers with a value or the call raises.                           *)
(***************************************************************************)
\* the values of status()["last-round"]
LastRounds == {0, 41}

\* the transaction ids send_transaction returns: the id of the signed
\* transaction, "TX1", or another one
NodeTxIds == {"TX1", "TX2"}

\* the answers of pending_transaction_info: the call raises ("fail"), or
\* returns something that is not a dict of the fields read ("garbled"), or
\* returns the fields.  confirmed_round is the round in which the node has
\* confirmed the transaction (0: it has not), whether or not the answer
\* delivers it
PendingAnswers ==
    [kind : {"fail", "garbled"}, confirmed_round : {0, 9}, pool_error : {""}]
    \cup [kind : {"info"}, confirmed_round : {0, 9},
          pool_error : {"", "rejected"}]

\* mutant: a node failure inside the poller reaches the outer handler
TransferResponseNodeError500(outcome, tx_id) ==
    CASE outcome \in {"return_txn", "return_none"} ->
            Response(200, "confirmed", "none", tx_id)
      [] outcome = "raise_failed" ->
            Response(202, "pending", "Transaction failed", tx_id)
      [] outcome = "raise_not_confirmed" ->
            Response(202, "pending", "Transaction not confirmed", tx_id)
      [] OTHER ->
            Response(500, "none", "Failed to transfer funds", "none")

\* lines 594 and 596: the response once wait_for_confirmation has ended
TransferResponse(outcome, tx_id) ==
    CASE outcome \in {"return_txn", "return_none"} ->
            Response(200, "confirmed", "none", tx_id)
      [] outcome = "raise_failed" ->
            Response(202, "pending", "Transaction failed", tx_id)
      [] outcome = "raise_not_confirmed" ->
            Response(202, "pending", "Transaction not confirmed", tx_id)
      [] OTHER ->
            Response(202, "pending", "node error", tx_id)

\* line 600
TransferFailed == Response(500, "none", "Failed to transfer funds", "none")

\* lines 543 to 572: the rate limit, the validation of the body and of the
\* mnemonic
transfer_funds(client_ip, body) ==
    /\ pc = "idle"
    /\ rate_limit(client_ip)
    /\ req' = [endpoint |-> "/api/transfer", client_ip |-> client_ip,
               seen |-> Seen(client_ip), body |-> body]
    /\ xf' = [NoXf EXCEPT !.steps = TransferSteps(last'.limited, body)]
    /\ IF last'.limited
       THEN /\ resp' = Response(429, "none", "Rate limit exceeded", "none")
            /\ pc' = "idle"
       ELSE IF body.json # "object"
       THEN /\ resp' = TransferFailed
            /\ pc' = "idle"
       ELSE IF ~(/\ Truthy(body.from) /\ Truthy(body.mnemonic)
                 /\ Truthy(body.to) /\ Truthy(body.amount))
       THEN /\ resp' = Response(400, "none", "Missing required fields", "none")
            /\ pc' = "idle"
       ELSE IF \/ IntRaises(body.amount) = "ValueError"
               \/ IntRaises(body.amount) = "ok" /\ IntOf(body.amount) <= 0
       THEN /\ resp' = Response(400, "none", "Invalid amount", "none")
            /\ pc' = "idle"
       ELSE IF IntRaises(body.amount) = "TypeError"
       THEN /\ resp' = TransferFailed
            /\ pc' = "idle"
       ELSE IF ~validate_mnemonic(body.mnemonic, body.from)
       THEN /\ resp' = Response(403, "none",
                                "Invalid mnemonic for sender address", "none")
            /\ pc' = "idle"
       ELSE /\ resp' = NoResp
            /\ pc' = "suggested_params"
    /\ log' = IF /\ ~last'.limited
                 /\ body.json = "object"
                 /\ Truthy(body.from) /\ Truthy(body.mnemonic)
                 /\ Truthy(body.to) /\ Truthy(body.amount)
                 /\ IntRaises(body.amount) = "ok"
                 /\ IntOf(body.amount) > 0
              THEN log \cup ValidateLog(body.mnemonic, body.from)
              ELSE log
    /\ UNCHANGED cvars

\* lines 575 to 586: suggested_params, PaymentTxn and sign
SuggestedParams(answer) ==
    /\ pc = "suggested_params"
    /\ IF answer = "fail" \/ req.body.to = "junk"
       THEN /\ xf' = NodeCall(xf, "suggested_params", answer = "fail")
            /\ resp' = TransferFailed
            /\ pc' = "idle"
       ELSE /\ xf' = [NodeCall(xf, "suggested_params", FALSE)
                         EXCEPT !.local_tx_id = "TX1",
                                !.steps = Append(@, "sign")]
            /\ resp' = NoResp
            /\ pc' = "send_transaction"
    /\ UNCHANGED <<rlvars, cvars, req, log>>

\* line 589: tx_id = algod_client.send_transaction(signed_txn)
SendTransaction(answer) ==
    /\ pc = "send_transaction"
    /\ IF answer = "fail"
       THEN /\ xf' = NodeCall(xf, "send_transaction", TRUE)
            /\ resp' = TransferFailed
            /\ pc' = "idle"
       ELSE /\ xf' = [NodeCall(xf, "send_transaction", FALSE)
                         EXCEPT !.tx_id = answer]
            /\ resp' = NoResp
            /\ pc' = "status"
    /\ UNCHANGED <<rlvars, cvars, req, log>>

\* mutant: a transaction the pool rejected is submitted again
EndedResubmits(x, outcome) ==
    IF outcome = "raise_failed"
    THEN /\ xf' = x
         /\ resp' = NoResp
         /\ pc' = "send_transaction"
    ELSE /\ xf' = [x EXCEPT !.outcome = outcome]
         /\ resp' = TransferResponse(outcome, x.tx_id)
         /\ pc' = "idle"

\* wait_for_confirmation has ended with outcome: lines 592 to 596
Ended(x, outcome) ==
    /\ xf' = [x EXCEPT !.outcome = outcome]
    /\ resp' = TransferResponse(outcome, x.tx_id)
    /\ pc' = "idle"

\* mutant: the loop runs while current_round <= start_round + timeout
LoopInclusive(x) ==
    IF x.current_round <= x.start_round + timeout
    THEN /\ xf' = x
         /\ resp' = NoResp
         /\ pc' = "pending_transaction_info"
    ELSE Ended(x, "raise_not_confirmed")

\* line 608, the loop test, and line 622
Loop(x) ==
    IF x.current_round < x.start_round + timeout
    THEN /\ xf' = x
         /\ resp' = NoResp
         /\ pc' = "pending_transaction_info"
    ELSE Ended(x, "raise_not_confirmed")

\* lines 605 and 606: start_round = client.status()["last-round"] + 1
Status(answer) ==
    /\ pc = "status"
    /\ LET x == NodeCall(xf, "status", answer = -1)
       IN  IF answer = -1
           THEN Ended(x, "raise_node")
           ELSE Loop([x EXCEPT !.start_round = answer + 1,
                               !.current_round = answer + 1])
    /\ UNCHANGED <<rlvars, cvars, req, log>>

\* lines 609 to 617: pending_transaction_info and the two tests
PendingTransactionInfo(answer) ==
    /\ pc = "pending_transaction_info"
    /\ LET x == [NodeCall(xf, "pending_transaction_info",
                           answer.kind \in {"fail", "garbled"})
                    EXCEPT !.confirmed = answer.confirmed_round > 0]
       IN  IF answer.kind = "fail" THEN Ended(x, "return_none")
           ELSE IF answer.kind = "garbled" THEN Ended(x, "raise_node")
           ELSE IF answer.confirmed_round > 0 THEN Ended(x, "return_txn")
           ELSE IF answer.pool_error # "" THEN Ended(x, "raise_failed")
           ELSE /\ xf' = x
                /\ resp' = NoResp
                /\ pc' = "status_after_block"
    /\ UNCHANGED <<rlvars, cvars, req, log>>

\* lines 619 and 620: status_after_block and current_round += 1
StatusAfterBlock(answer) ==
    /\ pc = "status_after_block"
    /\ LET x == NodeCall(xf, "status_after_block", answer = "fail")
       IN  IF answer = "fail"
           THEN Ended(x, "raise_node")
           ELSE Loop([x EXCEPT !.current_round = @ + 1])
    /\ UNCHANGED <<rlvars, cvars, req, log>>

\* requests of one quiet caller
LightWorkloads == {[k \in Keys |-> IF k = "ip1" THEN MaxLight ELSE 0]}

InitHttp ==
    /\ InitConcVars
    /\ InitHttpVars
    /\ now = 0
    /\ ticks = 0
    /\ load \in LightWorkloads
    /\ request_counts = [ip \in {} |-> NoWin]
    /\ win = [k \in Keys |-> NoWin]
    /\ last = NoCall
    /\ probe = NoProbe

Serve ==
    \/ \E client_ip \in Keys : create_account(client_ip)
    \/ \E client_ip \in Keys, body \in BalanceBodies :
          get_balance(client_ip, body)
    \/ \E client_ip \in Keys : health_check(client_ip)
    \/ \E client_ip \in Keys, body \in TransferBodies :
          transfer_funds(client_ip, body)
    \/ \E answer \in {"ok", "fail"} : SuggestedParams(answer)
    \/ \E answer \in NodeTxIds \cup {"fail"} : SendTransaction(answer)
    \/ \E answer \in LastRounds \cup {-1} : Status(answer)
    \/ \E answer \in PendingAnswers : PendingTransactionInfo(answer)
    \/ \E answer \in {"ok", "fail"} : StatusAfterBlock(answer)

NextHttp == Serve

SpecHttp == InitHttp /\ [][NextHttp]_vars

(***************************************************************************)
(* One busy caller at the limit.  The bodies and the node's answers are    *)
(* few; the node never leaves a transaction pending.                       *)
(***************************************************************************)
SomeBalanceBodies ==
    {[json |-> "invalid"],
     [json |-> "object", address |-> "A", mnemonic |-> "mA"]}

SomeTransferBodies ==
    [json : {"object"}, from : {"A"}, mnemonic : {"mA"}, to : {"B"},
     amount : {"7"}]

SettledAnswers ==
    {a \in PendingAnswers :
        /\ a.kind = "info"
        /\ (a.confirmed_round > 0) # (a.pool_error # "")}

\* requests of one busy caller
BusyWorkloads ==
    {[k \in Keys |-> IF k = "ip1" THEN REQUEST_LIMIT + MaxOver ELSE 0]}

InitLimit ==
    /\ InitConcVars
    /\ InitHttpVars
    /\ now = 0
    /\ ticks = 0
    /\ load \in BusyWorkloads
    /\ request_counts = [ip \in {} |-> NoWin]
    /\ win = [k \in Keys |-> NoWin]
    /\ last = NoCall
    /\ probe = NoProbe

NextLimit ==
    \/ \E d \in Steps : pc = "idle" /\ Tick(d)
    \/ \E client_ip \in Keys : create_account(client_ip)
    \/ \E client_ip \in Keys, body \in SomeBalanceBodies :
          get_balance(client_ip, body)
    \/ \E client_ip \in Keys : health_check(client_ip)
    \/ \E client_ip \in Keys, body \in SomeTransferBodies :
          transfer_funds(client_ip, body)
    \/ \E answer \in {"ok", "fail"} : SuggestedParams(answer)
    \/ \E answer \in {"TX1"} : SendTransaction(answer)
    \/ \E answer \in {41} : Status(answer)
    \/ \E answer \in SettledAnswers : PendingTransactionInfo(answer)

SpecLimit == InitLimit /\ [][NextLimit]_vars

\* C5 as stated: once a caller has made REQUEST_LIMIT requests within the
\* hour, its next request is answered 429, whichever endpoint it addresses.
EveryEndpointLimited ==
    (pc = "idle" /\ req.endpoint # "none" /\ req.seen >= REQUEST_LIMIT)
    => resp.code = 429

\* C5 amended: once REQUEST_LIMIT requests of a caller have been counted
\* since the window_start of its record, its next request inside that
\* window to /api/account/new, /api/account/balance or /api/transfer is
\* answered 429.
LimitedEndpointsLimited ==
    (/\ pc = "idle"
     /\ req.endpoint \in LimitedEndpoints
     /\ req.seen >= REQUEST_LIMIT)
    => resp.code = 429

\* C5 witness: request REQUEST_LIMIT + 1 of a window went to /api/transfer
\* and was answered 429.
TransferLimited ==
    /\ pc = "idle"
    /\ req.endpoint = "/api/transfer"
    /\ req.seen = REQUEST_LIMIT
    /\ resp.code = 429

(***************************************************************************)
(* The confirmation poller's and the transfer endpoint's claims.           *)
(***************************************************************************)
RECURSIVE Count(_, _)
Count(calls, name) ==
    IF calls = << >> THEN 0
    ELSE (IF Head(calls) = name THEN 1 ELSE 0) + Count(Tail(calls), name)

\* the transfer request req has been answered after its poller ran
Polled ==
    /\ pc = "idle"
    /\ req.endpoint = "/api/transfer"
    /\ Count(xf.calls, "status") = 1

\* C6: a run of wait_for_confirmation makes at most timeout lookups of the
\* pending transaction and at most timeout waits for a round.
PollBudget ==
    /\ Count(xf.calls, "pending_transaction_info") <= timeout
    /\ Count(xf.calls, "status_after_block") <= timeout

\* C6 witness: the whole budget was used and the poller timed out.
PollBudgetUsed ==
    /\ Polled
    /\ xf.outcome = "raise_not_confirmed"
    /\ Count(xf.calls, "pending_transaction_info") = timeout
    /\ Count(xf.calls, "status_after_block") = timeout

\* C7: a run of the poller that has ended has ended in one of Confirmed
\* (the pending transaction is returned), Rejected (raises "Transaction
\* failed") and TimedOut (raises "not confirmed after timeout rounds").
ThreeOutcomes ==
    Polled => xf.outcome \in {"return_txn", "raise_failed",
                              "raise_not_confirmed"}

\* C8: a transfer during which a node call failed is answered with 500.
NodeFailureIs500 ==
    (/\ pc = "idle"
     /\ req.endpoint = "/api/transfer"
     /\ xf.failed # "none")
    => resp.code = 500

\* the kind of a response, its free text left out
Kind(r) == <<r.code, r.status>>

\* C9: the response to a transfer whose poller timed out differs in kind
\* from the response to a transfer the pool rejected.
TimedOutDistinct ==
    (Polled /\ xf.outcome = "raise_not_confirmed")
    => Kind(resp) # Kind(TransferResponse("raise_failed", xf.tx_id))

\* C10: when the node's tx_id differs from the local one, no lookup is
\* made under it and the transfer is answered with an error that does not
\* carry it.
TxIdChecked ==
    (xf.tx_id # "none" /\ xf.tx_id # xf.local_tx_id)
    => /\ Count(xf.calls, "pending_transaction_info") = 0
       /\ resp # NoResp => resp.code \notin {200, 202} /\ resp.tx_id # xf.tx_id

(***************************************************************************)
(* The validation of the caller's input.                                   *)
(***************************************************************************)
\* the request req has been answered
Answered(endpoints) == pc = "idle" /\ req.endpoint \in endpoints

\* the address the request claims: "from" of a transfer, "address" of a
\* balance query
Claimed(r) ==
    IF r.endpoint = "/api/transfer" THEN r.body.from ELSE r.body.address

\* the request carries a phrase and a claimed address, and the phrase does
\* not derive that address
Mismatch(r) ==
    /\ r.body.json = "object"
    /\ Truthy(Claimed(r))
    /\ Truthy(r.body.mnemonic)
    /\ Derive(r.body.mnemonic) # Claimed(r)

\* the fields of a transfer other than its amount are present
OtherFieldsPresent(r) ==
    /\ r.body.json = "object"
    /\ Truthy(r.body.from)
    /\ Truthy(r.body.mnemonic)
    /\ Truthy(r.body.to)

\* C11: an admitted transfer whose other fields are present and whose
\* amount is 0 is answered 400 "Invalid amount", and no node call is made.
ZeroAmountInvalid ==
    (/\ Answered({"/api/transfer"})
     /\ ~last.limited
     /\ OtherFieldsPresent(req)
     /\ req.body.amount = "0")
    => /\ resp.code = 400
       /\ resp.error = "Invalid amount"
       /\ xf.calls = << >>

\* C12 as stated: a balance or transfer request whose phrase does not
\* derive the claimed address is answered 403, and no node call is made.
MismatchIs403 ==
    (Answered({"/api/account/balance", "/api/transfer"}) /\ Mismatch(req))
    => resp.code = 403 /\ xf.calls = << >>

\* the checks that precede the credential check have passed: the request
\* is admitted by the rate limiter and, for a transfer, the receiver is
\* present and the amount converts to a positive integer
PassedEarlierChecks(r) ==
    /\ ~last.limited
    /\ r.endpoint = "/api/transfer" =>
          /\ Truthy(r.body.to)
          /\ Truthy(r.body.amount)
          /\ IntRaises(r.body.amount) = "ok"
          /\ IntOf(r.body.amount) > 0

\* C12 amended: a balance or transfer request that has passed the earlier
\* checks and whose phrase does not derive the claimed address is answered
\* 403, and no node call is made.
CheckedMismatchIs403 ==
    (/\ Answered({"/api/account/balance", "/api/transfer"})
     /\ Mismatch(req)
     /\ PassedEarlierChecks(req))
    => resp.code = 403 /\ xf.calls = << >>

\* C12 witness: a transfer whose well-formed phrase derives another
\* address than "from" has been answered 403.
TransferMismatchAnswered ==
    /\ Answered({"/api/transfer"})
    /\ Mismatch(req)
    /\ PassedEarlierChecks(req)
    /\ Derive(req.body.mnemonic) # "raise"
    /\ resp.code = 403

\* the input of the request is malformed or incomplete: the body is not a
\* JSON object, a field is missing, or the amount is negative, not a
\* number or not a scalar
MalformedInput(r) ==
    \/ r.body.json # "object"
    \/ ~Truthy(Claimed(r))
    \/ ~Truthy(r.body.mnemonic)
    \/ /\ r.endpoint = "/api/transfer"
       /\ \/ ~Truthy(r.body.to)
          \/ r.body.amount \in {"null", "-5", "'abc'", "[7]"}

\* C13: an admitted balance or transfer request with malformed or
\* incomplete input is answered 400.
MalformedIs400 ==
    (/\ Answered({"/api/account/balance", "/api/transfer"})
     /\ ~last.limited
     /\ MalformedInput(req))
    => resp.code = 400

(***************************************************************************)
(* The credentials of the requests.                                        *)
(***************************************************************************)
\* the parts of a Credential
CredentialRoles == {"recovery_phrase", "derived_private_key", "derived_address"}

\* C17: no credential value has been written to the log, and the shared
\* table request_counts is keyed by caller addresses only.
CredentialsNotKept ==
    /\ \A e \in log : e.role \notin CredentialRoles
    /\ DOMAIN request_counts \subseteq Keys

(***************************************************************************)
(* validate_mnemonic on its own: any phrase with any claimed address.      *)
(***************************************************************************)
\* recovery phrases: two well-formed ones, one with a wrong checksum, one
\* with a wrong word count
Phrases == {"mA", "mB", "bad", "short"}

\* claimed addresses: the derived ones, another one, the empty string and
\* None
Addresses == {"A", "B", "junk", "", "null"}

\* the value validate_mnemonic returns
ValidateOutcome(mnemonic_phrase, address) ==
    IF validate_mnemonic(mnemonic_phrase, address) THEN "True" ELSE "False"

\* one call validate_mnemonic(mnemonic_phrase, address)
ValidateCall(mnemonic_phrase, address) ==
    /\ pc = "idle"
    /\ req' = [endpoint |-> "validate_mnemonic", client_ip |-> "none",
               seen |-> 0,
               body |-> [json |-> "object", mnemonic |-> mnemonic_phrase,
                         address |-> address]]
    /\ xf' = [NoXf EXCEPT !.outcome = ValidateOutcome(mnemonic_phrase, address)]
    /\ resp' = NoResp
    /\ log' = log \cup ValidateLog(mnemonic_phrase, address)
    /\ UNCHANGED <<pc, rlvars, cvars>>

NextValidate ==
    \E mnemonic_phrase \in Phrases, address \in Addresses :
        ValidateCall(mnemonic_phrase, address)

SpecValidate == InitHttp /\ [][NextValidate]_vars

\* validate_mnemonic has been called with the phrase and address of req
Validated == req.endpoint = "validate_mnemonic"

\* C14: the outcome of validate_mnemonic for a malformed phrase differs
\* from its outcome for every well-formed phrase that derives another
\* address than the claimed one.
MalformedDistinct ==
    (Validated /\ Derive(req.body.mnemonic) = "raise")
    => \A q \in Phrases :
          (Derive(q) # "raise" /\ Derive(q) # req.body.address)
          => ValidateOutcome(q, req.body.address) # xf.outcome

\* C16: for a well-formed phrase validate_mnemonic returns True exactly
\* when the claimed address is the derived one.
ValidateExact ==
    (Validated /\ Derive(req.body.mnemonic) # "raise")
    => (xf.outcome = "True" <=> req.body.address = Derive(req.body.mnemonic))

(***************************************************************************)
(* The submission of the transaction.                                      *)
(***************************************************************************)
\* C15: within one transfer request send_transaction is called at most
\* once.
SubmitOnce == Count(xf.calls, "send_transaction") <= 1

\* C15 witness: the pool rejected the transaction of a transfer, and the
\* transfer was answered after one submission.
RejectedNotResubmitted ==
    /\ Polled
    /\ xf.outcome = "raise_failed"
    /\ Count(xf.calls, "send_transaction") = 1

(***************************************************************************)
(* The effect of a confirmed transfer on the node's ledger.                *)
(***************************************************************************)
\* history: by how much the transfer of req has raised the node's balance
\* of its receiver; the node credits the receiver in the round in which it
\* confirms the transaction
Credited == IF xf.confirmed THEN IntOf(req.body.amount) ELSE 0

\* C18: whenever a transfer is answered 200 with status "confirmed", the
\* node's balance of the receiver has grown by at least the amount.
ConfirmedMeansCredited ==
    (/\ Answered({"/api/transfer"})
     /\ resp.code = 200
     /\ resp.status = "confirmed")
    => Credited >= IntOf(req.body.amount)

(***************************************************************************)
(* The order of the steps of a handler.                                    *)
(***************************************************************************)
\* the place of a step in the control flow: rate limit, reading the body,
\* credential validation, build and sign, submit, poll
Rank(step) ==
    CASE step = "rate_limit" -> 0
      [] step = "get_json" -> 1
      [] step \in {"validate_mnemonic", "to_private_key"} -> 2
      [] step \in {"suggested_params", "sign"} -> 3
      [] step = "send_transaction" -> 4
      [] OTHER -> 5

\* C19: in the three limited endpoints rate_limit is the first step, a
\* request answered 429 has taken no other step, and the steps of a
\* transfer come in the order rate limit, credential validation, build and
\* sign, submit, poll.
RateLimitFirst ==
    /\ req.endpoint \in LimitedEndpoints
       => /\ Len(xf.steps) > 0
          /\ xf.steps[1] = "rate_limit"
    /\ (req.endpoint \in LimitedEndpoints /\ resp.code = 429)
       => xf.steps = <<"rate_limit">>
    /\ req.endpoint = "/api/transfer"
       => \A i, j \in 1..Len(xf.steps) :
             i < j => Rank(xf.steps[i]) <= Rank(xf.steps[j])

\* C19 witness: a transfer was rate limited after an admitted one of the
\* same caller, and nothing but the rate limit was done for it.
LimitedBeforeValidation ==
    /\ Answered({"/api/transfer"})
    /\ resp.code = 429
    /\ last.nth > REQUEST_LIMIT + 1
    /\ xf.steps = <<"rate_limit">>
    /\ xf.calls = << >>

(***************************************************************************)
(* The sweep of the rate limiter's table.                                  *)
(***************************************************************************)
\* C20: immediately after a rate_limit call made at time now, every record
\* of the table satisfies now - window_start <= RATE_WINDOW, and the
\* record of the calling key exists.
SweptAfterCall ==
    [][last' # last
       => /\ \A k \in DOMAIN request_counts' :
                now - request_counts'[k].timestamp <= RATE_WINDOW
          /\ last'.key \in DOMAIN request_counts']_vars

\* C20 witness: the call of one caller has removed the elapsed record of
\* another caller.
OtherRecordSwept ==
    \E k \in last.swept :
        /\ k # last.key
        /\ k \notin DOMAIN request_counts

(***************************************************************************)
(* The count of a record.                                                  *)
(***************************************************************************)
\* C21: the count of every record is the number of rate_limit calls made
\* for its key since its window_start, and a call for a key whose record
\* is at or above the limit, made inside the record's window, adds one to
\* the count and leaves the window_start as it is.
CountIsCalls ==
    /\ [](\A k \in DOMAIN request_counts :
             /\ request_counts[k].count = win[k].calls
             /\ request_counts[k].timestamp = win[k].start)
    /\ [][\A k \in Keys :
            (/\ k \in DOMAIN request_counts
             /\ request_counts[k].count >= REQUEST_LIMIT
             /\ now - request_counts[k].timestamp <= RATE_WINDOW
             /\ CallStep(k))
            => request_counts'[k] =
                  [count |-> request_counts[k].count + 1,
                   timestamp |-> request_counts[k].timestamp]]_vars

\* C21 witness: a rejected call found a count above the limit and raised
\* it by one.
RejectedCallCounted ==
    /\ last.limited
    /\ last.prev.count > REQUEST_LIMIT
    /\ request_counts[last.key].count = last.prev.count + 1
    /\ win[last.key].calls = last.prev.count + 1

(***************************************************************************)
(* The end of the poller and the response of the transfer.                 *)
(***************************************************************************)
\* C22: a transfer is answered 200 with status "confirmed" only if a
\* lookup of its pending transaction returned a confirmed round above zero
\* (line 614, the outcome "return_txn").
ConfirmedOnlyIfReported ==
    (/\ Answered({"/api/transfer"})
     /\ resp.code = 200
     /\ resp.status = "confirmed")
    => /\ xf.outcome = "return_txn"
       /\ Count(xf.calls, "pending_transaction_info") >= 1

\* C23: when the poller has timed out, the last call it made to the node
\* was a lookup of the pending transaction.
LookupBeforeTimeout ==
    (Polled /\ xf.outcome = "raise_not_confirmed")
    => xf.calls[Len(xf.calls)] = "pending_transaction_info"

\* the node has accepted the submit of the transfer req: line 589 returned
Submitted == xf.tx_id # "none"

\* C25: a transfer answered after the node accepted its submit is answered
\* 200 or 202 with the tx_id; a transfer answered 400, 403, 429 or 500 had
\* no accepted submit.
SubmittedCarriesTxId ==
    Answered({"/api/transfer"})
    => /\ Submitted => (resp.code \in {200, 202} /\ resp.tx_id = xf.tx_id)
       /\ resp.code \in {400, 403, 429, 500} => ~Submitted

\* C25 witness: status() failed after the node had accepted the submit, and
\* the transfer was answered 202 with the tx_id.
SubmittedThenNodeFailed ==
    /\ Answered({"/api/transfer"})
    /\ Submitted
    /\ xf.failed = "status"
    /\ resp.code = 202
    /\ resp.tx_id = xf.tx_id

(***************************************************************************)
(* Concurrent calls and the sweep.                                         *)
(***************************************************************************)
\* C24: no concurrent rate_limit call ends with a KeyError.
NoKeyError == \A t \in Threads : th[t].result # "KeyError"

(***************************************************************************)
(* The records of the other callers.                                       *)
(***************************************************************************)
\* C26: a rate_limit call for one key leaves the record of every other key
\* as it was, unless that record's window has elapsed at the time of the
\* call: then the record is removed.
OthersUntouched ==
    [][last' # last
       => \A k \in DOMAIN request_counts \ {last'.key} :
             IF now - request_counts[k].timestamp > RATE_WINDOW
             THEN k \notin DOMAIN request_counts'
             ELSE /\ k \in DOMAIN request_counts'
                  /\ request_counts'[k] = request_counts[k]]_vars

\* C26 witness: after a later call of one caller the record of another
\* caller, begun before that call, is still in the table.
OtherRecordKept ==
    \E k \in DOMAIN request_counts :
        /\ k # last.key
        /\ last.key \in Keys
        /\ request_counts[k].timestamp < last.time

====
